---- MODULE Spec2Model ----
(***************************************************************************)
(* A model of deriva_datapackage: the offline adapter DerivaCompatPkg      *)
(* (loading datapackage resources into an sqlite store kept in the cache   *)
(* directory) and the query facade DerivaCompatTable / DerivaCompatQuery / *)
(* DerivaCompatPrimitive built over the store.                             *)
(***************************************************************************)
EXTENDS Naturals, Sequences, FiniteSets, TLC

VARIABLES
  store,      \* cachedir/datapackage.sqlite: table name -> table (or NoTable)
  pc,         \* position of DerivaCompatPkg.__init__: idle, loading, ready, failed
  todo,       \* the entries of rcs still to be loaded, in rcs.items() order
  gen,        \* how many constructions were started on this cache directory
  given,      \* the resource names of the bundles given to the current construction
  adapter,    \* the adapter returned by the last construction (tables mapping)
  err,        \* the exception that reached the caller of the last operation
  readErr,    \* the exception raised by resource.read in the current construction
  h,          \* the Table Handle or Query Handle the caller holds
  it,         \* the generator of entities() the caller holds: none, fresh, spent
  last,       \* the last facade operation the caller performed
  arg,        \* its join kind (link) or the attribute name it looked up (getattr)
  out,        \* what the last count() or enumeration returned
  queried,    \* whether the last operation had the session query the store
  called      \* how many supplied predicates the last operation called

vars == <<store, pc, todo, gen, given, adapter, err, readErr,
          h, it, last, arg, out, queried, called>>

loaderVars == <<store, pc, todo, gen, given, adapter, readErr>>
facadeVars == <<h, it, last, arg, out, queried, called>>

(***************************************************************************)
(* Bounds of the model.                                                    *)
(***************************************************************************)
MaxConstructions == 2   \* constructions on the same cache directory
MaxPkgs == 2            \* bundles handed to one construction
MaxRead == 1            \* rows one resource.read returns (loader runs)
MaxRows == 2            \* rows of table item in the stores the facade queries
MaxOps == 2             \* operations chained on one handle

(***************************************************************************)
(* Values as the sqlite store returns them to Python: None, a float (a     *)
(* field of type number is cast to float64) or a str.                      *)
(***************************************************************************)
Null == [kind |-> "null", n |-> 0, s |-> ""]
Num(k) == [kind |-> "num", n |-> k, s |-> ""]
Str(t) == [kind |-> "str", n |-> 0, s |-> t]

\* Python truthiness of a value: the test `if v` of entities().
Truthy(v) ==
  CASE v.kind = "null" -> FALSE
    [] v.kind = "num" -> v.n # 0
    [] OTHER -> v.s # ""

\* str(v): a float prints with its fraction, a str is itself.
FloatRepr == <<"0.0", "1.0", "2.0">>
PyStr(v) ==
  CASE v.kind = "null" -> "None"
    [] v.kind = "num" -> FloatRepr[v.n + 1]
    [] OTHER -> v.s

(***************************************************************************)
(* Exceptions.  hasErrors: whether the exception object has an attribute   *)
(* `errors` (datapackage's CastError lists its per-row errors there; an    *)
(* IOError raised for an unreadable file has no such attribute).           *)
(***************************************************************************)
NoError == [type |-> "", hasErrors |-> FALSE]
CastError == [type |-> "CastError", hasErrors |-> TRUE]
IOError == [type |-> "IOError", hasErrors |-> FALSE]
AttributeError == [type |-> "AttributeError", hasErrors |-> FALSE]
KeyError == [type |-> "KeyError", hasErrors |-> FALSE]
NotImplementedError == [type |-> "NotImplementedError", hasErrors |-> FALSE]
OperationalError == [type |-> "OperationalError", hasErrors |-> FALSE]

ReadErrors == {CastError, IOError}

(***************************************************************************)
(* Resources.  Two resource names; their schemas' fields.                  *)
(***************************************************************************)
Names == {"item", "category"}

Fields(name) ==
  IF name = "item" THEN <<"id", "name", "category_id">> ELSE <<"id", "name">>

\* The rows a table may hold: a field of type number is the float64 it was
\* cast to, an absent value is NULL.
ItemRows ==
  {[id |-> Num(0), name |-> Str("a"), category_id |-> Null],
   [id |-> Num(1), name |-> Str(""), category_id |-> Num(1)],
   [id |-> Num(2), name |-> Str("a"), category_id |-> Num(2)]}
CategoryRows == [id : {Num(1)}, name : {Str("c")}]
RowsOf(name) == IF name = "item" THEN ItemRows ELSE CategoryRows

SeqsUpTo(S, k) == UNION {[1..m -> S] : m \in 0..k}

\* A resource of a bundle: its name and whether its schema declares primaryKey.
Resources == [name : Names, pk : BOOLEAN]

\* A bundle (datapackage): resources with distinct names.
Bundles ==
  {b \in SeqsUpTo(Resources, Cardinality(Names)) :
     \A i, j \in 1..Len(b) : b[i].name = b[j].name => i = j}

\* The bundles handed to one construction (*pkgs).
Inputs == SeqsUpTo(Bundles, MaxPkgs)

(***************************************************************************)
(* The store: one sqlite file in the cache directory.                      *)
(***************************************************************************)
NoTable == [exists |-> FALSE, rows |-> <<>>, gen |-> 0, pkIndex |-> FALSE]

TableNames(st) == {n \in Names : st[n].exists}

NoAdapter == [built |-> FALSE, tables |-> {}]

\* All resources of all bundles, in the order the two loops visit them.
RECURSIVE Flatten(_)
Flatten(pkgs) ==
  IF pkgs = <<>> THEN <<>> ELSE Head(pkgs) \o Flatten(Tail(pkgs))

RECURSIVE GroupInto(_, _)
GroupInto(acc, rs) ==
  IF rs = <<>> THEN acc
  ELSE LET r == Head(rs)
           at == {i \in 1..Len(acc) : acc[i].name = r.name}
       IN IF at = {}
            THEN GroupInto(Append(acc, [name |-> r.name, pk |-> r.pk, n |-> 1]),
                           Tail(rs))
            ELSE LET i == CHOOSE j \in at : TRUE
                 IN GroupInto([acc EXCEPT ![i].n = @ + 1], Tail(rs))

\* rcs: one entry per distinct resource name, in order of first appearance,
\* with the schema of the first resource of that name and its resources.
Group(pkgs) == GroupInto(<<>>, Flatten(pkgs))

\* The values rcs takes over the inputs.
Grouped == {Group(pkgs) : pkgs \in Inputs}

\* What one resource.read(keyed=True) does: returns rows, or raises.
\* The rows of the files the loader runs read: one kind of row per resource.
FileRows(name) ==
  IF name = "item"
    THEN {[id |-> Num(1), name |-> Str("a"), category_id |-> Num(1)]}
    ELSE CategoryRows

ReadOutcomes(name) ==
  [fail : {NoError}, rows : SeqsUpTo(FileRows(name), MaxRead)]
    \cup [fail : ReadErrors, rows : {<<>>}]

RECURSIVE Concat(_, _)
Concat(outs, i) ==
  IF i > Len(outs) THEN <<>> ELSE outs[i].rows \o Concat(outs, i + 1)

\* The exception the list comprehension raises: that of the first failing read.
FirstFailure(outs) ==
  LET bad == {i \in 1..Len(outs) : outs[i].fail # NoError}
  IN IF bad = {} THEN NoError
     ELSE outs[CHOOSE i \in bad : \A j \in bad : i <= j].fail

\* The except clause: print(e.errors) then raise e.
Reraise(e) == IF e.hasErrors THEN e ELSE AttributeError

\* to_sql(if_exists='replace') and the index on the primary key.
Materialize(raw, g) ==
  [exists |-> TRUE, rows |-> raw, gen |-> g, pkIndex |-> raw # <<>>]

(***************************************************************************)
(* Predicates: what DerivaCompatPrimitive wraps.  A column compared with a  *)
(* literal, a column compared with a column, or two predicates combined.   *)
(***************************************************************************)
Col(tab, col) == [tab |-> tab, col |-> col]

Pred(op, c, c2, vals, args) ==
  [op |-> op, tab |-> c.tab, col |-> c.col, tab2 |-> c2.tab, col2 |-> c2.col,
   vals |-> vals, args |-> args]
NoCol == Col("", "")

\* DerivaCompatPrimitive.__eq__, __ne__, in_, notin_ with a literal operand,
\* __eq__ with a column operand (unwrapped by other()), __and__, __or__.
PyEq(c, v) == Pred("eq", c, NoCol, <<v>>, <<>>)
PyNe(c, v) == Pred("ne", c, NoCol, <<v>>, <<>>)
PyIn(c, vs) == Pred("in", c, NoCol, vs, <<>>)
PyNotIn(c, vs) == Pred("notin", c, NoCol, vs, <<>>)
PyEqCol(c, c2) == Pred("eqcol", c, c2, <<>>, <<>>)
PyOr(a, b) == Pred("or", NoCol, NoCol, <<>>, <<a, b>>)
\* __and__ written with the operator of __or__.
PyAndAsOr(a, b) == Pred("or", NoCol, NoCol, <<>>, <<a, b>>)
PyAnd(a, b) == Pred("and", NoCol, NoCol, <<>>, <<a, b>>)

\* SQL's three-valued logic: "T", "F", "U" (unknown, from NULL).
Not3(x) == CASE x = "T" -> "F" [] x = "F" -> "T" [] OTHER -> "U"
And3(x, y) ==
  IF x = "F" \/ y = "F" THEN "F" ELSE IF x = "T" /\ y = "T" THEN "T" ELSE "U"
Or3(x, y) ==
  IF x = "T" \/ y = "T" THEN "T" ELSE IF x = "F" /\ y = "F" THEN "F" ELSE "U"

Range(q) == {q[i] : i \in 1..Len(q)}

\* The value of predicate p on the joined row env (table name -> row).
RECURSIVE Eval3(_, _)
Eval3(p, env) ==
  CASE p.op = "and" -> And3(Eval3(p.args[1], env), Eval3(p.args[2], env))
    [] p.op = "or" -> Or3(Eval3(p.args[1], env), Eval3(p.args[2], env))
    [] p.op = "eqcol" ->
         LET v == env[p.tab][p.col]
             w == env[p.tab2][p.col2]
         IN IF v = Null \/ w = Null THEN "U" ELSE IF v = w THEN "T" ELSE "F"
    [] OTHER ->
         LET v == env[p.tab][p.col]
             hit == IF v \in Range(p.vals) THEN "T" ELSE "F"
         IN IF v = Null THEN "U"
            ELSE IF p.op \in {"eq", "in"} THEN hit ELSE Not3(hit)

\* The tables a predicate names.
RECURSIVE TablesOf(_)
TablesOf(p) ==
  CASE p.op \in {"and", "or"} -> TablesOf(p.args[1]) \cup TablesOf(p.args[2])
    [] p.op = "eqcol" -> {p.tab, p.tab2}
    [] OTHER -> {p.tab}

(***************************************************************************)
(* Handles.  A Table Handle (kind "table") and a Query Handle (kind        *)
(* "query") carry the subject table and the composed closure (_qs, _query) *)
(* as the sequence of the query-builder calls it makes, innermost first.   *)
(***************************************************************************)
Op(op, tab, pred, col) == [op |-> op, tab |-> tab, pred |-> pred, col |-> col]
NoPred == Pred("", NoCol, NoCol, <<>>, <<>>)

FilterOp(clause) == Op("filter", "", clause, NoCol)
JoinOp(subj, on) == Op("join", subj, on, NoCol)
OuterJoinOp(subj, on) == Op("outerjoin", subj, on, NoCol)
GroupByOp(c) == Op("group_by", "", NoPred, c)

\* DerivaCompatTable.__init__ with qs=None.
TableHandle(name) ==
  [kind |-> "table", subj |-> name, plan |-> <<>>, path |-> {}]

\* DerivaCompatQuery.__init__
QueryHandle(subj, query, path) ==
  [kind |-> "query", subj |-> subj, plan |-> query, path |-> path \cup {subj}]

\* DerivaCompatTable._as_query
AsQuery(hd) ==
  IF hd.kind = "table" THEN QueryHandle(hd.subj, hd.plan, {}) ELSE hd

(***************************************************************************)
(* Execution: DerivaCompatQuery.__call__ hands session.query(subject) to   *)
(* the closure; the relational engine then evaluates                       *)
(*   SELECT subject.* FROM subject [JOIN t ON ..] [, t] WHERE .. GROUP BY  *)
(***************************************************************************)
NullRow(name) == [f \in Range(Fields(name)) |-> Null]

JoinOps(plan) == SelectSeq(plan, LAMBDA o : o.op \in {"join", "outerjoin"})
Filters(plan) == SelectSeq(plan, LAMBDA o : o.op = "filter")
GroupBys(plan) == SelectSeq(plan, LAMBDA o : o.op = "group_by")

Joined(plan) == {JoinOps(plan)[i].tab : i \in 1..Len(JoinOps(plan))}

\* Tables named in WHERE or GROUP BY that no JOIN brings in: the query
\* builder lists them in FROM, a cross join.
Implicit(hd) ==
  (UNION {TablesOf(Filters(hd.plan)[i].pred) : i \in 1..Len(Filters(hd.plan))}
     \cup {GroupBys(hd.plan)[i].col.tab : i \in 1..Len(GroupBys(hd.plan))})
    \ ({hd.subj} \cup Joined(hd.plan))

\* A table joined twice, or joined to itself: the engine rejects the query.
Rejected(hd) ==
  LET js == JoinOps(hd.plan)
  IN \/ \E i \in 1..Len(js) : js[i].tab = hd.subj
     \/ \E i, j \in 1..Len(js) : i # j /\ js[i].tab = js[j].tab
     \/ \E i \in 1..Len(js) :
          ~(TablesOf(js[i].pred) \subseteq
              ({hd.subj} \cup {js[k].tab : k \in 1..i}))

RECURSIVE FlatMap(_, _, _)
FlatMap(F(_), q, i) ==
  IF i > Len(q) THEN <<>> ELSE F(q[i]) \o FlatMap(F, q, i + 1)

\* env joined with every row of table t that satisfies on; an outer join
\* keeps env, with t's columns NULL, when no row does.
JoinOne(env, t, on, outer, st) ==
  LET rows == st[t].rows
      with(j) == [env EXCEPT ![t] = rows[j]]
      hit(j) == IF Eval3(on, with(j)) = "T" THEN <<with(j)>> ELSE <<>>
      hits == FlatMap(hit, [j \in 1..Len(rows) |-> j], 1)
  IN IF hits = <<>> /\ outer THEN <<[env EXCEPT ![t] = NullRow(t)]>> ELSE hits

RECURSIVE ApplyJoins(_, _, _)
ApplyJoins(envs, js, st) ==
  IF js = <<>> THEN envs
  ELSE LET o == Head(js)
           step(env) == JoinOne(env, o.tab, o.pred, o.op = "outerjoin", st)
       IN ApplyJoins(FlatMap(step, envs, 1), Tail(js), st)

RECURSIVE ApplyCross(_, _, _)
ApplyCross(envs, ts, st) ==
  IF ts = {} THEN envs
  ELSE LET t == CHOOSE x \in ts : TRUE
           step(env) == [j \in 1..Len(st[t].rows) |-> [env EXCEPT ![t] = st[t].rows[j]]]
       IN ApplyCross(FlatMap(step, envs, 1), ts \ {t}, st)

\* WHERE keeps the rows on which every filter clause is true.
Where(envs, fs) ==
  SelectSeq(envs, LAMBDA env : \A i \in 1..Len(fs) : Eval3(fs[i].pred, env) = "T")

\* FROM and WHERE of the handle's query, before GROUP BY.
Selected(hd, st) ==
  LET base == [i \in 1..Len(st[hd.subj].rows) |->
                 [n \in Names |-> IF n = hd.subj THEN st[n].rows[i] ELSE NullRow(n)]]
      joined == ApplyJoins(base, JoinOps(hd.plan), st)
      crossed == ApplyCross(joined, Implicit(hd), st)
  IN Where(crossed, Filters(hd.plan))

\* GROUP BY: one row per distinct key; which row of a group supplies the
\* ungrouped columns is the engine's choice.
GroupKey(env, gs) == [i \in 1..Len(gs) |-> env[gs[i].col.tab][gs[i].col.col]]

FirstOfKey(envs, gs) ==
  SelectSeq([i \in 1..Len(envs) |-> i],
            LAMBDA i : \A j \in 1..(i - 1) :
                         GroupKey(envs[j], gs) # GroupKey(envs[i], gs))

GroupRows(envs, gs) ==
  IF gs = <<>> THEN {envs}
  ELSE LET firsts == FirstOfKey(envs, gs)
       IN {[k \in 1..Len(firsts) |-> envs[c[k]]] :
             c \in {d \in [1..Len(firsts) -> 1..Len(envs)] :
                      \A k \in 1..Len(firsts) :
                        GroupKey(envs[d[k]], gs) = GroupKey(envs[firsts[k]], gs)}}

\* The possible results of the handle's query: sequences of subject rows.
Results(hd, st) ==
  {[i \in 1..Len(envs) |-> envs[i][hd.subj]] :
     envs \in GroupRows(Selected(hd, st), GroupBys(hd.plan))}

\* The number of calls clause() / on() the closure makes when executed.
Clauses(plan) ==
  Len(SelectSeq(plan, LAMBDA o : o.op \in {"filter", "join", "outerjoin", "group_by"}))

\* entities(): the mapping yielded for one result row.
Entity(record) ==
  [k \in {f \in DOMAIN record : Truthy(record[f])} |-> PyStr(record[k])]

Entities(rows) == [i \in 1..Len(rows) |-> Entity(rows[i])]

(***************************************************************************)
(* The facade's state while the loader runs, and the loader's while the    *)
(* facade is used.                                                         *)
(***************************************************************************)
NoHandle == [kind |-> "none", subj |-> "", plan |-> <<>>, path |-> {}]
NoOutput == [kind |-> "none", count |-> 0, entities |-> <<>>]

FacadeInit ==
  /\ h = NoHandle
  /\ it = "none"
  /\ last = "none"
  /\ arg = ""
  /\ out = NoOutput
  /\ queried = FALSE
  /\ called = 0

(***************************************************************************)
(* DerivaCompatPkg.__init__                                                *)
(***************************************************************************)
\* Lines 186-199: open the store of the cache directory, patch and group the
\* resources of the bundles by name.
Construct ==
  /\ pc \in {"idle", "ready", "failed"}
  /\ gen < MaxConstructions
  /\ \E rcs \in Grouped :
       /\ todo' = rcs
       /\ given' = {rcs[i].name : i \in 1..Len(rcs)}
  /\ gen' = gen + 1
  /\ pc' = "loading"
  /\ adapter' = NoAdapter
  /\ err' = NoError
  /\ readErr' = NoError
  /\ UNCHANGED <<store, facadeVars>>

\* The loop writing the rows read so far before the failing read is seen.
LoadResourcePartial ==
  /\ pc = "loading"
  /\ todo # <<>>
  /\ LET rc == Head(todo) IN
     \E outs \in [1..rc.n -> ReadOutcomes(rc.name)] :
       LET e == FirstFailure(outs)
           raw_data == Concat(outs, 1)
           empty == raw_data = <<>>
       IN IF e # NoError
            THEN /\ readErr' = e
                 /\ err' = Reraise(e)
                 /\ pc' = "failed"
                 /\ store' = [store EXCEPT ![rc.name] = Materialize(raw_data, gen)]
                 /\ UNCHANGED todo
            ELSE IF ~empty /\ ~rc.pk
            THEN /\ err' = KeyError
                 /\ pc' = "failed"
                 /\ UNCHANGED <<store, todo, readErr>>
            ELSE /\ store' = [store EXCEPT ![rc.name] = Materialize(raw_data, gen)]
                 /\ todo' = Tail(todo)
                 /\ UNCHANGED <<pc, err, readErr>>
  /\ UNCHANGED <<gen, given, adapter, facadeVars>>

\* Lines 201-252: one turn of the loop over rcs.items().
LoadResource ==
  /\ pc = "loading"
  /\ todo # <<>>
  /\ LET rc == Head(todo) IN
     \E outs \in [1..rc.n -> ReadOutcomes(rc.name)] :
       LET e == FirstFailure(outs)
           raw_data == Concat(outs, 1)
           empty == raw_data = <<>>
       IN IF e # NoError
            THEN \* lines 206-209: the read raised
                 /\ readErr' = e
                 /\ err' = Reraise(e)
                 /\ pc' = "failed"
                 /\ UNCHANGED <<store, todo>>
            ELSE IF ~empty /\ ~rc.pk
            THEN \* line 228: resource['schema']['primaryKey'] of a schema
                 \* that has no such key
                 /\ err' = KeyError
                 /\ pc' = "failed"
                 /\ UNCHANGED <<store, todo, readErr>>
            ELSE \* lines 230-252: to_sql and the indexes
                 /\ store' = [store EXCEPT ![rc.name] = Materialize(raw_data, gen)]
                 /\ todo' = Tail(todo)
                 /\ UNCHANGED <<pc, err, readErr>>
  /\ UNCHANGED <<gen, given, adapter, facadeVars>>

\* Lines 254-259: reflect the store's tables and return the adapter.
Reflect ==
  /\ pc = "loading"
  /\ todo = <<>>
  /\ adapter' = [built |-> TRUE, tables |-> TableNames(store)]
  /\ pc' = "ready"
  /\ UNCHANGED <<store, todo, gen, given, err, readErr, facadeVars>>

LoaderInit ==
  /\ store = [n \in Names |-> NoTable]
  /\ pc = "idle"
  /\ todo = <<>>
  /\ gen = 0
  /\ given = {}
  /\ adapter = NoAdapter
  /\ err = NoError
  /\ readErr = NoError
  /\ FacadeInit

LoaderNext == Construct \/ LoadResource \/ Reflect

SpecLoader == LoaderInit /\ [][LoaderNext]_vars

(***************************************************************************)
(* The caller's inputs: column references (table.column attribute access)  *)
(* compared with literals, on clauses, group-by columns.                   *)
(***************************************************************************)
Missing == "nosuch"

\* getattr(table handle, name): the attributes set in DerivaCompatTable.__init__
\* are the table's columns; any other name raises AttributeError.
\* A handle that answers every attribute name with a column.
HasColumnAny(c) == c.tab \in Names
HasColumn(c) == c.col \in Range(Fields(c.tab))

Atoms(tab) ==
  IF tab = "item"
    THEN {[c |-> Col("item", "name"), cmp |-> "eq", v |-> Str("a")],
          [c |-> Col("item", "category_id"), cmp |-> "ne", v |-> Num(1)],
          [c |-> Col("item", Missing), cmp |-> "eq", v |-> Num(1)]}
    ELSE {[c |-> Col("category", "id"), cmp |-> "in", v |-> Num(1)]}

BuildAtom(a) ==
  CASE a.cmp = "eq" -> PyEq(a.c, a.v)
    [] a.cmp = "ne" -> PyNe(a.c, a.v)
    [] a.cmp = "in" -> PyIn(a.c, <<a.v>>)
    [] OTHER -> PyNotIn(a.c, <<a.v>>)

\* The tables whose columns the caller reaches from a handle: its subject
\* and the tables of its path mapping.
Reach(hd) == {hd.subj} \cup hd.path

AtomsAt(hd) == UNION {Atoms(t) : t \in Reach(hd)}

OnClauses ==
  {[c |-> Col("item", "category_id"), c2 |-> Col("category", "id")],
   [c |-> Col("item", Missing), c2 |-> Col("category", "id")]}

GroupCols(hd) ==
  {c \in {Col("item", "category_id"), Col("category", "id")} :
     c.tab \in Reach(hd)}

(***************************************************************************)
(* The facade's operations.                                                *)
(***************************************************************************)
Ready == pc = "ready" /\ adapter.built

Building == h.kind # "none" /\ Len(h.plan) < MaxOps

\* What an operation that returns a handle (or raises while its arguments
\* are evaluated) leaves behind.
Respond(hd, e, op, a, q, c) ==
  /\ h' = hd
  /\ err' = e
  /\ last' = op
  /\ arg' = a
  /\ it' = "none"
  /\ out' = NoOutput
  /\ queried' = q
  /\ called' = c
  /\ UNCHANGED loaderVars

Returned(hd, e, op, a) == Respond(hd, e, op, a, FALSE, 0)

\* adapter.tables[name]
Table ==
  /\ Ready
  /\ \E name \in adapter.tables : Returned(TableHandle(name), NoError, "table", "")

\* DerivaCompatQuery.filter (DerivaCompatTable.filter goes through _as_query).
FilterHandle(hd, clause) ==
  QueryHandle(AsQuery(hd).subj, Append(AsQuery(hd).plan, FilterOp(clause)),
              AsQuery(hd).path)

\* filter calling clause() itself instead of leaving it to the closure.
FilterEager ==
  /\ Ready /\ Building
  /\ \E a \in AtomsAt(h) :
       IF ~HasColumn(a.c)
         THEN Returned(h, AttributeError, "getattr", Missing)
         ELSE Respond(FilterHandle(h, BuildAtom(a)), NoError, "filter", "", FALSE, 1)

Filter ==
  /\ Ready /\ Building
  /\ \E a \in AtomsAt(h) :
       IF ~HasColumn(a.c)
         THEN Returned(h, AttributeError, "getattr", Missing)
         ELSE Returned(FilterHandle(h, BuildAtom(a)), NoError, "filter", "")

\* filter(a & b)
FilterAnd ==
  /\ Ready /\ Building
  /\ \E a, b \in AtomsAt(h) :
       /\ a # b
       /\ IF ~HasColumn(a.c) \/ ~HasColumn(b.c)
            THEN Returned(h, AttributeError, "getattr", Missing)
            ELSE Returned(FilterHandle(h, PyAnd(BuildAtom(a), BuildAtom(b))),
                          NoError, "filter", "")

\* DerivaCompatQuery.link (DerivaCompatTable.link goes through _as_query):
\* the closure joins the handle's own subject; the new subject is other.
\* link with no branch of its own for 'right': the kind falls through.
LinkErrorNoRight(join_type) ==
  IF join_type \in {"left", "right", "full"} THEN NoError ELSE NotImplementedError

LinkError(join_type) ==
  IF join_type \in {"left", "full"} THEN NoError ELSE NotImplementedError

LinkHandle(hd, other, on, join_type) ==
  LET q == AsQuery(hd)
      op == IF join_type = "left" THEN JoinOp(q.subj, on) ELSE OuterJoinOp(q.subj, on)
  IN QueryHandle(other, Append(q.plan, op), q.path)

Link ==
  /\ Ready /\ Building
  /\ \E other \in adapter.tables \ {h.subj}, on \in OnClauses,
        join_type \in {"left", "right", "full", "inner"} :
       IF ~HasColumn(on.c) \/ ~HasColumn(on.c2)
         THEN Returned(h, AttributeError, "getattr", Missing)
         ELSE IF LinkError(join_type) # NoError
         THEN Returned(h, LinkError(join_type), "link", join_type)
         ELSE Returned(LinkHandle(h, other, PyEqCol(on.c, on.c2), join_type),
                       NoError, "link", join_type)

\* DerivaCompatQuery.groupby
GroupBy ==
  /\ Ready /\ Building
  /\ h.kind = "query"
  /\ \E c \in GroupCols(h) :
       Returned(QueryHandle(h.subj, Append(h.plan, GroupByOp(c)), h.path),
                NoError, "groupby", "")

\* DerivaCompatQuery.pivot
Pivot ==
  /\ Ready /\ Building
  /\ h.kind = "query"
  /\ \E other \in adapter.tables :
       Returned(QueryHandle(other, h.plan, h.path), NoError, "pivot", "")

\* What an operation that executes the query leaves behind.
Executed(o, e, op) ==
  /\ out' = o
  /\ err' = e
  /\ last' = op
  /\ arg' = ""
  /\ queried' = TRUE
  /\ called' = Clauses(h.plan)
  /\ UNCHANGED <<h, loaderVars>>

\* DerivaCompatQuery.count (DerivaCompatTable.count goes through _as_query).
Count ==
  /\ Ready
  /\ h.kind # "none"
  /\ it' = "none"
  /\ IF Rejected(AsQuery(h))
       THEN Executed(NoOutput, OperationalError, "count")
       ELSE \E rs \in Results(AsQuery(h), store) :
              Executed([kind |-> "count", count |-> Len(rs), entities |-> <<>>],
                       NoError, "count")

\* entities(): returns a generator; nothing runs until it is enumerated.
EntitiesCall ==
  /\ Ready
  /\ h.kind # "none"
  /\ it' = "fresh"
  /\ last' = "entities"
  /\ arg' = ""
  /\ err' = NoError
  /\ out' = NoOutput
  /\ queried' = FALSE
  /\ called' = 0
  /\ UNCHANGED <<h, loaderVars>>

\* Enumerating the generator of entities() to its end.
Enumerate ==
  /\ Ready
  /\ it = "fresh"
  /\ it' = "spent"
  /\ IF Rejected(AsQuery(h))
       THEN Executed(NoOutput, OperationalError, "enumerate")
       ELSE \E rs \in Results(AsQuery(h), store) :
              Executed([kind |-> "entities", count |-> 0, entities |-> Entities(rs)],
                       NoError, "enumerate")

\* The stores the facade is used on: item and category loaded by one
\* construction on an empty cache directory.
QueryInit ==
  /\ \E items \in SeqsUpTo(RowsOf("item"), MaxRows),
        cats \in SeqsUpTo(RowsOf("category"), 1) :
       store = [n \in Names |->
                  Materialize(IF n = "item" THEN items ELSE cats, 1)]
  /\ pc = "ready"
  /\ todo = <<>>
  /\ gen = 1
  /\ given = Names
  /\ adapter = [built |-> TRUE, tables |-> Names]
  /\ err = NoError
  /\ readErr = NoError
  /\ FacadeInit

QueryNext ==
  \/ Table \/ Filter \/ FilterAnd \/ Link \/ GroupBy \/ Pivot
  \/ Count \/ EntitiesCall \/ Enumerate

SpecQuery == QueryInit /\ [][QueryNext]_vars

(***************************************************************************)
(* Properties of the loader (specification SpecLoader).                    *)
(***************************************************************************)
TodoNames == {todo[i].name : i \in 1..Len(todo)}

\* C6: after every successful construction the store holds exactly one table
\* per distinct resource name of the bundles given to this construction, and
\* the adapter's table mapping has exactly those names as keys.
C6_ExactlyTheGivenTables ==
  pc = "ready" => (TableNames(store) = given /\ adapter.tables = given)

\* C7: when a read fails for resource R (the head of todo), construction
\* aborts with an error and returns no adapter; neither R's table nor the
\* table of any later resource is written by this construction; the tables
\* of the resources loaded earlier in this construction stay in the store.
C7_ReadFailureAborts ==
  (pc = "failed" /\ readErr # NoError) =>
    /\ err # NoError
    /\ adapter = NoAdapter
    /\ todo # <<>>
    /\ \A n \in TodoNames : store[n].gen # gen
    /\ \A n \in given \ TodoNames : store[n].exists /\ store[n].gen = gen

C7_Witness ==
  /\ pc = "failed"
  /\ readErr # NoError
  /\ store[Head(todo).name].exists
  /\ store[Head(todo).name].rows # <<>>
  /\ \E n \in given \ TodoNames : store[n].gen = gen

\* C8: the error that reaches the caller of the constructor is the error the
\* read raised, for every kind of read error.
C8_SameReadError ==
  (pc = "failed" /\ readErr # NoError) => err = readErr

\* C10: a resource that has rows and declares no primary key is loaded: a
\* construction whose reads all succeed does not fail at such a resource.
C10_PrimaryKeyOptional ==
  ~(pc = "failed" /\ readErr = NoError /\ todo # <<>> /\ ~Head(todo).pk)

(***************************************************************************)
(* Properties of the facade (specification SpecQuery).                     *)
(***************************************************************************)
BuildOps == {"table", "filter", "link", "groupby", "pivot", "getattr", "entities"}
ExecOps == {"count", "enumerate"}

\* C1: no query-building operation (filter, link left or full, groupby,
\* pivot) has the session query the store or calls a supplied predicate; the
\* store is queried only by count() and by enumerating entities().
C1_BuildingNeverExecutes ==
  /\ last \in BuildOps => (~queried /\ called = 0 /\ out = NoOutput)
  /\ queried => last \in ExecOps

C1_Witness ==
  /\ last = "filter"
  /\ Len(h.plan) = 2
  /\ h.plan[1].op = "outerjoin"
  /\ err = NoError

\* C2: for item.link(category, item.category_id == category.id,
\* join_type='full'), every row of item with no matching row of category
\* appears in the result, the category columns absent.
OnCategory == PyEqCol(Col("item", "category_id"), Col("category", "id"))
FullLink == LinkHandle(TableHandle("item"), "category", OnCategory, "full")

NoMatch(r) ==
  \A j \in 1..Len(store["category"].rows) :
    r.category_id = Null \/ r.category_id # store["category"].rows[j].id

C2_FullJoinKeepsUnmatchedItems ==
  (h = FullLink /\ last = "enumerate" /\ err = NoError) =>
    \A i \in 1..Len(store["item"].rows) :
      NoMatch(store["item"].rows[i]) =>
        \E k \in 1..Len(out.entities) :
          out.entities[k] = Entity(store["item"].rows[i])

\* C3: for a table t and predicates a, b over columns of t,
\* t.filter(a).filter(b) and t.filter(a & b) give the same entities() and
\* the same count().
Output(rs, op) ==
  IF op = "count"
    THEN [kind |-> "count", count |-> Len(rs), entities |-> <<>>]
    ELSE [kind |-> "entities", count |-> 0, entities |-> Entities(rs)]

TwoFilters ==
  /\ h.kind = "query"
  /\ Len(h.plan) = 2
  /\ \A i \in 1..2 :
       h.plan[i].op = "filter" /\ TablesOf(h.plan[i].pred) = {h.subj}

C3_FilterComposition ==
  (TwoFilters /\ last \in ExecOps /\ err = NoError) =>
    \E rs \in Results(FilterHandle(TableHandle(h.subj),
                                   PyAnd(h.plan[1].pred, h.plan[2].pred)),
                      store) :
      out = Output(rs, last)

C3_Witness ==
  /\ TwoFilters
  /\ h.plan[1].pred # h.plan[2].pred
  /\ last = "count"
  /\ out.count = 1
  /\ Len(store[h.subj].rows) = 2
  /\ \E i \in 1..2 : store[h.subj].rows[i].category_id = Null

\* C4: entities() yields one mapping per result row, whose keys are exactly
\* the columns whose value in the row is not empty or null-like (a row with
\* a value in every field yields a mapping with every field name), each
\* value the stringified column value.
EmptyLike(v) == v = Null \/ v = Str("")

C4_EntityKeys ==
  (h.kind = "table" /\ last = "enumerate" /\ err = NoError) =>
    /\ Len(out.entities) = Len(store[h.subj].rows)
    /\ \A i \in 1..Len(out.entities) :
         LET r == store[h.subj].rows[i] IN
         /\ DOMAIN out.entities[i] = {f \in DOMAIN r : ~EmptyLike(r[f])}
         /\ \A f \in DOMAIN out.entities[i] : out.entities[i][f] = PyStr(r[f])

\* C5: link with join kind 'right', on a Table Handle or a Query Handle,
\* raises at the call: no handle is returned, the store is not queried, no
\* predicate is called.
C5_RightJoinFails ==
  [][(last' = "link" /\ arg' = "right") =>
       (err' = NotImplementedError /\ h' = h /\ ~queried' /\ called' = 0)]_vars

C5_Witness ==
  /\ last = "link"
  /\ arg = "right"
  /\ h.kind = "query"
  /\ Len(h.plan) = 1

RECURSIVE ColumnsOf(_)
ColumnsOf(p) ==
  CASE p.op \in {"and", "or"} -> ColumnsOf(p.args[1]) \cup ColumnsOf(p.args[2])
    [] p.op = "eqcol" -> {Col(p.tab, p.col), Col(p.tab2, p.col2)}
    [] p.op = "" -> {}
    [] OTHER -> {Col(p.tab, p.col)}

====
